---- MODULE Spec2Model ----
(***************************************************************************)
(* Model of the cache refresh Manager of hopperbot (package cache):        *)
(* Start / Stop / ManualRefresh, the recurring goroutine, refreshAll and   *)
(* refreshCacheWithRetry, driven against the failure schedules of the      *)
(* mockRefresher of the tests, and the two directories of notion.Client    *)
(* that the refresh operations replace and the request handlers read.      *)
(*                                                                         *)
(* Every goroutine is a record with its position (pc) and the locals of    *)
(* refreshCacheWithRetry; a step is one call, one return of a call, or one *)
(* case of a select. Time is the elapsed time of each retry loop: it grows *)
(* by callDur at the return of a call and by the backoff when the timer    *)
(* of the backoff select fires.                                            *)
(***************************************************************************)
EXTENDS Integers, Sequences, FiniteSets, TLC

(* ---- program constants ---- *)
CacheTypeCustomers == "customers"
CacheTypeUsers == "users"
initialBackoff == 3
backoffMultiple == 2
maxRetryWindow == 300
\* customersFailUntil: 999 in the tests means "always fail"
AlwaysFail == 999

(* ---- bounds of the model ---- *)
\* number of outside events of one behaviour: calls of Start, ManualRefresh
\* and Stop, and ticks delivered by the tickers
MaxEvents == 3
\* seconds one call of a refresh operation takes under Spec: a failing retry
\* loop then makes a first attempt (150 s elapsed), waits 3 s and ends in
\* terminal failure at its second attempt (303 s >= maxRetryWindow)
SlowCall == 150
\* seconds of a call that is neither negligible nor slow
MidCall == 20
\* pages one listing of the system of record is delivered in
PagesPerFetch == 2

VARIABLES
    gor,         \* goroutines: recurring ones (RecIds) and ManualRefresh slots
    nStart,      \* Start calls made; m.ticker is the ticker of the last one
    tickC,       \* ticker.C of each ticker: a tick is buffered
    tickStopped, \* ticker.Stop() was called on the ticker
    deferTicker, \* the ticker "defer m.ticker.Stop()" bound in each recurring goroutine
    nTick,       \* ticks delivered so far
    cancelled,   \* m.ctx is done (m.cancel() was called)
    wg,          \* m.wg counter
    stop,        \* callers of Stop
    calls,       \* mockRefresher.customersCallCnt / usersCallCnt
    failUntil,   \* mockRefresher.customersFailUntil / usersFailUntil
    callDur,     \* seconds one refresh call takes
    refresher,   \* m.refresher: the mockRefresher of the tests or the notion Client
    metrics,     \* m.metrics: a metrics sink, or nil
    horizon,     \* the number of calls from outside and of ticks a run is followed for
    events,      \* the counters of the metrics sink, per cache type and outcome
    dir,         \* Client.customerMap / Client.validUsers: the entries of each directory
    seen         \* the entries the last reader of each directory got

vars == <<gor, nStart, tickC, tickStopped, deferTicker, nTick, cancelled, wg,
          stop, calls, failUntil, callDur, refresher, metrics, horizon, events,
          dir, seen>>

CacheTypes == {CacheTypeCustomers, CacheTypeUsers}
RecIds == 1..MaxEvents
ManIds == 1..MaxEvents
ManSlot(j) == MaxEvents + j
Gor == 1..(MaxEvents + MaxEvents)
IsRec(i) == i <= MaxEvents
StopIds == 1..MaxEvents
FailUntilChoices == {0, 1, AlwaysFail}
\* the failure schedules of the runs against the notion Client: one failed
\* call, or none that succeeds
ClientFailUntilChoices == {1, AlwaysFail}
\* the failure schedules and call durations of the single-cycle runs
CycleFailUntilChoices == {0, 1, 2, AlwaysFail}
CycleCallDurs == {0, MidCall, SlowCall, maxRetryWindow}

\* the positions of a goroutine inside a refresh cycle: about to call the
\* operation, inside the call, in the backoff select
InCycle == {"attempt", "call", "backoff"}

\* a goroutine that is not inside a retry loop
Idle(pc) ==
    [pc |-> pc, op |-> "-", attempt |-> 0, backoff |-> 0, elapsed |-> 0,
     res |-> "-", snap |-> 0]

\* variant: the backoff is kept in the Manager and is not reset when a loop
\* starts: a new loop starts from the longest backoff in use
LoopStartKeepsBackoff(op) ==
    LET InUse == {gor[i].backoff : i \in DOMAIN gor} \cup {initialBackoff}
    IN  [pc |-> "attempt", op |-> op, attempt |-> 1,
         backoff |-> CHOOSE b \in InUse : \A o \in InUse : o <= b,
         elapsed |-> 0, res |-> "-", snap |-> 0]

\* refreshCacheWithRetry entry: startTime := now, attempt := 1, backoffDuration := initialBackoff
LoopStart(op) ==
    [pc |-> "attempt", op |-> op, attempt |-> 1, backoff |-> initialBackoff,
     elapsed |-> 0, res |-> "-", snap |-> 0]

\* outside events so far
EventsUsed ==
    nStart + nTick
    + Cardinality({j \in ManIds : gor[ManSlot(j)].pc # "none"})
    + Cardinality({s \in StopIds : stop[s] # "idle"})
MayHappen == EventsUsed < horizon

\* NewManager: context not cancelled, no ticker, wait group at zero
NewManager ==
    /\ gor = [i \in Gor |-> Idle("none")]
    /\ nStart = 0
    /\ tickC = [k \in RecIds |-> FALSE]
    /\ tickStopped = [k \in RecIds |-> FALSE]
    /\ deferTicker = [i \in RecIds |-> 0]
    /\ nTick = 0
    /\ cancelled = FALSE
    /\ wg = 0
    /\ stop = [s \in StopIds |-> "idle"]
    /\ calls = [c \in CacheTypes |-> 0]
    /\ events = [c \in CacheTypes |-> [success |-> 0, failure |-> 0, retry |-> 0]]

(* ---- notion.Client: the two directories ---- *)
Pages == 1..PagesPerFetch

\* the entries the system of record lists at the n-th call of an operation,
\* one per page: each listing has lost the oldest entry of the one before
\* and gained a new one
Fetched(n) == {n + p - 1 : p \in Pages}

\* the listing a call of operation c gets from the system of record: that of
\* the moment of the call, which the count of the calls so far stands for; the
\* mockRefresher fetches nothing
Listing(c) == IF refresher = "client" THEN calls[c] + 1 ELSE 0

\* allCustomers / userMap when the fetch of page p fails: the pages before p
FetchedBefore(n, p) == {n + q - 1 : q \in 1..(p - 1)}

\* handler.Initialize at startup, before the manager exists and before any
\* reader runs: both directories hold the listing of that moment
Initialize ==
    /\ dir = [c \in CacheTypes |-> Fetched(0)]
    /\ seen = [c \in CacheTypes |-> Fetched(0)]

\* fetchCustomersFromDatabase / fetchUsersFromWorkspace in the call goroutine
\* i is in: the whole listing, or the pages before the failing one and an error
FetchResults(i) ==
    IF gor[i].res = "ok"
    THEN {[m |-> Fetched(gor[i].snap), err |-> FALSE]}
    ELSE {[m |-> FetchedBefore(gor[i].snap, p), err |-> TRUE] : p \in Pages}

\* variant: the map is assigned before the error is looked at
InstalledBeforeErrCheck(c, r) == [dir EXCEPT ![c] = r.m]

\* if err != nil { return ... }; c.customerMap = customerMap
Installed(c, r) == IF r.err THEN dir ELSE [dir EXCEPT ![c] = r.m]

\* the directories after the call goroutine i is in: Client.InitializeCustomers
\* / InitializeUsers fetch and install, the mockRefresher only counts its calls
AfterCall(i) ==
    IF refresher = "client"
    THEN {Installed(gor[i].op, r) : r \in FetchResults(i)}
    ELSE {dir}

\* What a reader can get from c.customerMap / c.validUsers. The map of the
\* startup listing was filled before the goroutines of the readers were
\* started. A map assigned by a refresh is read with no lock and no atomic on
\* either side: nothing orders the stores that filled the map before the
\* loads of the reader, which can find any part of the entries in it.
Readable(c) == IF dir[c] = Fetched(0) THEN {dir[c]} ELSE SUBSET dir[c]

\* GetValidCustomers / GetNotionUserIDByEmail / GetCachedUserEmails
ReadDirectory(c) ==
    /\ \E o \in Readable(c) : seen' = [seen EXCEPT ![c] = o]
    /\ UNCHANGED <<gor, nStart, tickC, tickStopped, deferTicker, nTick, cancelled,
                   wg, stop, calls, failUntil, callDur, refresher, metrics, horizon, events, dir>>

\* a manager over the mockRefresher of the tests, built with a metrics sink
Init ==
    /\ NewManager
    /\ Initialize
    /\ refresher = "mock"
    /\ metrics = "sink"
    /\ horizon = MaxEvents
    /\ failUntil \in [CacheTypes -> FailUntilChoices]
    /\ callDur = SlowCall

\* cache.NewManager(handler, m, logger, cfg.CacheRefreshInterval) of main: the
\* operations are those of the notion Client, whose calls fail as scheduled
InitClient ==
    /\ NewManager
    /\ Initialize
    /\ refresher = "client"
    /\ metrics = "sink"
    /\ horizon = MaxEvents
    /\ failUntil \in [CacheTypes -> ClientFailUntilChoices]
    /\ callDur = SlowCall

\* one refresh cycle against operations of any schedule and duration
InitCycle ==
    /\ NewManager
    /\ Initialize
    /\ refresher = "client"
    /\ metrics = "sink"
    /\ horizon = MaxEvents
    /\ failUntil \in [CacheTypes -> CycleFailUntilChoices]
    /\ callDur \in CycleCallDurs

\* NewManager(&mockRefresher{}, ...) of TestPeriodicRefresh: both operations
\* succeed, in negligible time
InitRecurring ==
    /\ NewManager
    /\ Initialize
    /\ refresher = "mock"
    /\ metrics = "sink"
    /\ horizon = MaxEvents + 1
    /\ failUntil = [c \in CacheTypes |-> 0]
    /\ callDur = 0

\* the same cycle on a manager built with or without a metrics sink:
\* NewManager(refresher, nil, ...) as in the tests, NewManager(handler, m, ...)
\* as in main
InitAnySink ==
    /\ NewManager
    /\ Initialize
    /\ refresher = "client"
    /\ metrics \in {"nil", "sink"}
    /\ horizon = MaxEvents
    /\ failUntil \in [CacheTypes -> CycleFailUntilChoices]
    /\ callDur \in CycleCallDurs

(* ---- Manager.Start ---- *)
Start ==
    /\ MayHappen
    /\ nStart < MaxEvents
    /\ nStart' = nStart + 1
    /\ tickC' = [tickC EXCEPT ![nStart + 1] = FALSE]
    /\ wg' = wg + 1
    /\ gor' = [gor EXCEPT ![nStart + 1] = Idle("spawned")]
    /\ UNCHANGED <<tickStopped, deferTicker, nTick, cancelled, stop, calls,
                   failUntil, callDur, refresher, metrics, horizon, events, dir, seen>>

\* variant: the goroutine of Start refreshes once before it waits for a tick
RecBeginRefreshesFirst(i) ==
    /\ IsRec(i)
    /\ gor[i].pc = "spawned"
    /\ deferTicker' = [deferTicker EXCEPT ![i] = nStart]
    /\ gor' = [gor EXCEPT ![i] = LoopStart(CacheTypeCustomers)]
    /\ UNCHANGED <<nStart, tickC, tickStopped, nTick, cancelled, wg, stop, calls,
                   failUntil, callDur, refresher, metrics, horizon, events, dir, seen>>

\* the goroutine of Start begins: its defers bind m.ticker as it is now
RecBegin(i) ==
    /\ IsRec(i)
    /\ gor[i].pc = "spawned"
    /\ deferTicker' = [deferTicker EXCEPT ![i] = nStart]
    /\ gor' = [gor EXCEPT ![i] = Idle("select")]
    /\ UNCHANGED <<nStart, tickC, tickStopped, nTick, cancelled, wg, stop, calls,
                   failUntil, callDur, refresher, metrics, horizon, events, dir, seen>>

\* the runtime delivers a tick into the one-slot channel of a running ticker
Tick(k) ==
    /\ k \in 1..nStart
    /\ MayHappen
    /\ ~tickStopped[k]
    /\ ~tickC[k]
    /\ tickC' = [tickC EXCEPT ![k] = TRUE]
    /\ nTick' = nTick + 1
    /\ UNCHANGED <<gor, nStart, tickStopped, deferTicker, cancelled, wg, stop,
                   calls, failUntil, callDur, refresher, metrics, horizon, events, dir, seen>>

\* variant: the cycle starts with the users loop
RefreshAllEntryUsers == LoopStart(CacheTypeUsers)

\* refreshAll begins: the customers retry loop comes first
RefreshAllEntry == LoopStart(CacheTypeCustomers)

\* select case <-m.ticker.C: m.refreshAll(). The channel is that of the ticker
\* m.ticker named when the select was entered, and a later Start overwrites
\* m.ticker without synchronisation: the goroutine receives from the ticker
\* of its own Start or from one made since.
RecTick(i) ==
    /\ IsRec(i)
    /\ gor[i].pc = "select"
    /\ \E k \in deferTicker[i]..nStart :
           /\ tickC[k]
           /\ tickC' = [tickC EXCEPT ![k] = FALSE]
    /\ gor' = [gor EXCEPT ![i] = RefreshAllEntry]
    /\ UNCHANGED <<nStart, tickStopped, deferTicker, nTick, cancelled, wg, stop,
                   calls, failUntil, callDur, refresher, metrics, horizon, events, dir, seen>>

\* select case <-m.ctx.Done(): return; deferred ticker.Stop() and wg.Done()
RecExit(i) ==
    /\ IsRec(i)
    /\ gor[i].pc = "select"
    /\ cancelled
    /\ gor' = [gor EXCEPT ![i] = Idle("done")]
    /\ tickStopped' = [tickStopped EXCEPT ![deferTicker[i]] = TRUE]
    /\ wg' = wg - 1
    /\ UNCHANGED <<nStart, tickC, deferTicker, nTick, cancelled, stop, calls,
                   failUntil, callDur, refresher, metrics, horizon, events, dir, seen>>

(* ---- Manager.ManualRefresh ---- *)
\* variant: also skip while the manager was never started
ManualSkipsUnlessStarted == cancelled \/ nStart = 0

\* variant: the cancellation check is missing
ManualNeverSkips == FALSE

\* variant: triggers are dropped while another cycle is running
ManualSkipsWhenBusy == cancelled \/ \E i \in Gor : gor[i].pc \in InCycle

\* the select of ManualRefresh takes case <-m.ctx.Done() exactly when the context is done
ManualSkips == cancelled

\* select { case <-m.ctx.Done(): return; default: ... }
ManualCheck(j) ==
    /\ MayHappen
    /\ gor[ManSlot(j)].pc = "none"
    /\ IF j = 1 THEN TRUE ELSE gor[ManSlot(j - 1)].pc # "none"
    /\ gor' = [gor EXCEPT ![ManSlot(j)] =
                  IF ManualSkips THEN Idle("skipped") ELSE Idle("checked")]
    /\ UNCHANGED <<nStart, tickC, tickStopped, deferTicker, nTick, cancelled, wg,
                   stop, calls, failUntil, callDur, refresher, metrics, horizon, events, dir, seen>>

\* variant: the cycle is launched only once no recurring cycle is running
ManualSpawnAfterRecurring(j) ==
    /\ gor[ManSlot(j)].pc = "checked"
    /\ \A i \in RecIds : gor[i].pc \notin InCycle
    /\ gor' = [gor EXCEPT ![ManSlot(j)] = RefreshAllEntry]
    /\ UNCHANGED <<nStart, tickC, tickStopped, deferTicker, nTick, cancelled, wg,
                   stop, calls, failUntil, callDur, refresher, metrics, horizon, events, dir, seen>>

\* go m.refreshAll(): the new goroutine is about to enter the customers retry loop
ManualSpawn(j) ==
    /\ gor[ManSlot(j)].pc = "checked"
    /\ gor' = [gor EXCEPT ![ManSlot(j)] = RefreshAllEntry]
    /\ UNCHANGED <<nStart, tickC, tickStopped, deferTicker, nTick, cancelled, wg,
                   stop, calls, failUntil, callDur, refresher, metrics, horizon, events, dir, seen>>

(* ---- mockRefresher.InitializeCustomers / InitializeUsers ---- *)
\* the n-th call fails while n <= FailUntil
MockResult(c, n) == IF n <= failUntil[c] THEN "err" ELSE "ok"

(* ---- Manager.refreshAll ---- *)
\* variant: a failed customers call ends the cycle
AfterLoopStopOnFailure(i) ==
    IF gor[i].op = CacheTypeCustomers /\ gor[i].res # "err"
    THEN LoopStart(CacheTypeUsers)
    ELSE IF IsRec(i) THEN Idle("select") ELSE Idle("done")

\* variant: the recurring goroutine gives up after a failed users loop
AfterLoopQuitsOnFailure(i) ==
    IF gor[i].op = CacheTypeCustomers THEN LoopStart(CacheTypeUsers)
    ELSE IF IsRec(i) /\ gor[i].res # "err" THEN Idle("select") ELSE Idle("done")

\* what follows a retry loop, whatever it returned: the users loop after the
\* customers loop, the end of the cycle after the users loop
AfterLoop(i) ==
    IF gor[i].op = CacheTypeCustomers THEN LoopStart(CacheTypeUsers)
    ELSE IF IsRec(i) THEN Idle("select") ELSE Idle("done")

(* ---- Manager.refreshCacheWithRetry ---- *)
\* variant: recordRetry is not called
RecordSkipsRetry(c, outcome) ==
    IF outcome = "retry" THEN events ELSE [events EXCEPT ![c][outcome] = @ + 1]

\* variant: recordFailure is also called on each failed attempt that is retried
RecordFailureEveryAttempt(c, outcome) ==
    IF metrics = "nil" THEN events
    ELSE IF outcome = "retry"
    THEN [events EXCEPT ![c].retry = @ + 1, ![c].failure = @ + 1]
    ELSE [events EXCEPT ![c][outcome] = @ + 1]

\* recordSuccess / recordFailure / recordRetry: return at once when m.metrics
\* is nil, increment the counter of the sink otherwise
Record(c, outcome) ==
    IF metrics = "nil" THEN events ELSE [events EXCEPT ![c][outcome] = @ + 1]

\* err := refreshFunc(): the call begins
Invoke(i) ==
    /\ gor[i].pc = "attempt"
    /\ LET c == gor[i].op IN
        /\ calls' = [calls EXCEPT ![c] = @ + 1]
        /\ gor' = [gor EXCEPT ![i].pc = "call",
                              ![i].res = MockResult(c, calls[c] + 1),
                              ![i].snap = Listing(c)]
    /\ UNCHANGED <<nStart, tickC, tickStopped, deferTicker, nTick, cancelled, wg,
                   stop, failUntil, callDur, refresher, metrics, horizon, events, dir, seen>>

\* variant: the retry window is taken in minutes
WindowExceededInMinutes(elapsed) == elapsed >= maxRetryWindow * 60

\* variant: the window counts as exceeded only past its last second
WindowExceededStrict(elapsed) == elapsed > maxRetryWindow

\* time.Since(startTime) >= maxRetryWindow
WindowExceeded(elapsed) == elapsed >= maxRetryWindow

\* variant: the loop gives up when the wait to come would end outside the window
ReturnCountingNextWait(i) ==
    /\ gor[i].pc = "call"
    /\ LET c == gor[i].op
           e == gor[i].elapsed + callDur
       IN  /\ dir' \in AfterCall(i)
           /\ IF gor[i].res = "ok"
              THEN /\ events' = Record(c, "success")
                   /\ gor' = [gor EXCEPT ![i] = AfterLoop(i)]
              ELSE IF WindowExceeded(e + gor[i].backoff)
              THEN /\ events' = Record(c, "failure")
                   /\ gor' = [gor EXCEPT ![i] = AfterLoop(i)]
              ELSE /\ events' = Record(c, "retry")
                   /\ gor' = [gor EXCEPT ![i].pc = "backoff", ![i].elapsed = e,
                                         ![i].res = "-", ![i].snap = 0]
    /\ UNCHANGED <<nStart, tickC, tickStopped, deferTicker, nTick, cancelled, wg,
                   stop, calls, failUntil, callDur, refresher, metrics, horizon, seen>>

\* variant: without a metrics sink a failed attempt is not retried
ReturnGivesUpWithoutSink(i) ==
    /\ gor[i].pc = "call"
    /\ LET c == gor[i].op
           e == gor[i].elapsed + callDur
       IN  /\ dir' \in AfterCall(i)
           /\ IF gor[i].res = "ok"
              THEN /\ events' = Record(c, "success")
                   /\ gor' = [gor EXCEPT ![i] = AfterLoop(i)]
              ELSE IF WindowExceeded(e) \/ metrics = "nil"
              THEN /\ events' = Record(c, "failure")
                   /\ gor' = [gor EXCEPT ![i] = AfterLoop(i)]
              ELSE /\ events' = Record(c, "retry")
                   /\ gor' = [gor EXCEPT ![i].pc = "backoff", ![i].elapsed = e,
                                         ![i].res = "-", ![i].snap = 0]
    /\ UNCHANGED <<nStart, tickC, tickStopped, deferTicker, nTick, cancelled, wg,
                   stop, calls, failUntil, callDur, refresher, metrics, horizon, seen>>

\* the call returns: success, terminal failure, or a retry that enters the backoff select
Return(i) ==
    /\ gor[i].pc = "call"
    /\ LET c == gor[i].op
           e == gor[i].elapsed + callDur
       IN  /\ dir' \in AfterCall(i)
           /\ IF gor[i].res = "ok"
              THEN /\ events' = Record(c, "success")
                   /\ gor' = [gor EXCEPT ![i] = AfterLoop(i)]
              ELSE IF WindowExceeded(e)
              THEN /\ events' = Record(c, "failure")
                   /\ gor' = [gor EXCEPT ![i] = AfterLoop(i)]
              ELSE /\ events' = Record(c, "retry")
                   /\ gor' = [gor EXCEPT ![i].pc = "backoff", ![i].elapsed = e,
                                         ![i].res = "-", ![i].snap = 0]
    /\ UNCHANGED <<nStart, tickC, tickStopped, deferTicker, nTick, cancelled, wg,
                   stop, calls, failUntil, callDur, refresher, metrics, horizon, seen>>

\* variant: the backoff is not doubled
BackoffFireNoDoubling(i) ==
    /\ gor[i].pc = "backoff"
    /\ ~cancelled
    /\ gor' = [gor EXCEPT ![i].pc = "attempt",
                          ![i].elapsed = @ + gor[i].backoff,
                          ![i].attempt = @ + 1]
    /\ UNCHANGED <<nStart, tickC, tickStopped, deferTicker, nTick, cancelled, wg,
                   stop, calls, failUntil, callDur, refresher, metrics, horizon, events, dir, seen>>

\* variant: the timer case is taken although the context is done
BackoffFireIgnoringCancel(i) ==
    /\ gor[i].pc = "backoff"
    /\ gor' = [gor EXCEPT ![i].pc = "attempt",
                          ![i].elapsed = @ + gor[i].backoff,
                          ![i].attempt = @ + 1,
                          ![i].backoff = @ * backoffMultiple]
    /\ UNCHANGED <<nStart, tickC, tickStopped, deferTicker, nTick, cancelled, wg,
                   stop, calls, failUntil, callDur, refresher, metrics, horizon, events, dir, seen>>

\* case <-time.After(backoffDuration): attempt++, backoffDuration *= backoffMultiple.
\* The timer is created on entry to the select with at least initialBackoff
\* seconds to run, so it is not ready on entry; a goroutine parked in the
\* select is woken by the first channel that becomes ready, with that case
\* chosen. The timer case is therefore taken only while the context is not done.
BackoffFire(i) ==
    /\ gor[i].pc = "backoff"
    /\ ~cancelled
    /\ gor' = [gor EXCEPT ![i].pc = "attempt",
                          ![i].elapsed = @ + gor[i].backoff,
                          ![i].attempt = @ + 1,
                          ![i].backoff = @ * backoffMultiple]
    /\ UNCHANGED <<nStart, tickC, tickStopped, deferTicker, nTick, cancelled, wg,
                   stop, calls, failUntil, callDur, refresher, metrics, horizon, events, dir, seen>>

\* variant: the cancellation case does not return, the loop goes on
BackoffCancelFallsThrough(i) ==
    /\ gor[i].pc = "backoff"
    /\ cancelled
    /\ gor' = [gor EXCEPT ![i].pc = "attempt",
                          ![i].attempt = @ + 1,
                          ![i].backoff = @ * backoffMultiple]
    /\ UNCHANGED <<nStart, tickC, tickStopped, deferTicker, nTick, cancelled, wg,
                   stop, calls, failUntil, callDur, refresher, metrics, horizon, events, dir, seen>>

\* case <-m.ctx.Done(): return m.ctx.Err()
BackoffCancel(i) ==
    /\ gor[i].pc = "backoff"
    /\ cancelled
    /\ gor' = [gor EXCEPT ![i] = AfterLoop(i)]
    /\ UNCHANGED <<nStart, tickC, tickStopped, deferTicker, nTick, cancelled, wg,
                   stop, calls, failUntil, callDur, refresher, metrics, horizon, events, dir, seen>>

(* ---- Manager.Stop ---- *)
\* variant: a stop flag that is flipped instead of set
CtxAfterCancelFlipped == ~cancelled

\* m.cancel(): the context is done, also when it was done before
CtxAfterCancel == TRUE

\* m.cancel(), then the caller enters m.wg.Wait()
StopCall(s) ==
    /\ MayHappen
    /\ stop[s] = "idle"
    /\ IF s = 1 THEN TRUE ELSE stop[s - 1] # "idle"
    /\ cancelled' = CtxAfterCancel
    /\ stop' = [stop EXCEPT ![s] = "wait"]
    /\ UNCHANGED <<gor, nStart, tickC, tickStopped, deferTicker, nTick, wg, calls,
                   failUntil, callDur, refresher, metrics, horizon, events, dir, seen>>

\* variant: Stop does not wait
WaitReturnsAtOnce == TRUE

\* m.wg.Wait() returns once the counter is zero
WaitReturns == wg = 0

StopReturn(s) ==
    /\ stop[s] = "wait"
    /\ WaitReturns
    /\ stop' = [stop EXCEPT ![s] = "returned"]
    /\ UNCHANGED <<gor, nStart, tickC, tickStopped, deferTicker, nTick, cancelled,
                   wg, calls, failUntil, callDur, refresher, metrics, horizon, events, dir, seen>>

(* ======================= properties ======================= *)
ManPc(j) == gor[ManSlot(j)].pc
StopReturned == \E s \in StopIds : stop[s] = "returned"
\* a Stop call returns in this step
StopReturning == \E s \in StopIds : stop[s] = "wait" /\ stop'[s] = "returned"

\* C1: when a Stop call returns, every recurring goroutine launched by a Start
\* made before has exited, and an exited recurring goroutine never moves again,
\* so it never again invokes InitializeCustomers or InitializeUsers.
C1_StopWaitsForRecurring ==
    [][ /\ StopReturning => \A i \in 1..nStart : gor[i].pc = "done"
        /\ \A i \in RecIds : gor[i].pc = "done" => gor'[i] = gor[i] ]_vars

\* a started manager whose goroutine ran a cycle, was stopped and has exited
C1_Witness ==
    /\ StopReturned
    /\ nStart >= 1
    /\ gor[1].pc = "done"
    /\ nTick >= 1 /\ ~tickC[1]
    /\ calls[CacheTypeUsers] >= 1

\* C2: when a Stop call returns no goroutine is inside a refresh cycle, neither
\* a recurring one nor one launched earlier by ManualRefresh.
C2_StopDrainsAllWork ==
    [][ StopReturning => \A i \in Gor : gor[i].pc \notin InCycle ]_vars

\* C3: at most one invocation of each refresh operation is in flight.
C3_OneInFlightPerDirectory ==
    \A c \in CacheTypes :
        Cardinality({i \in Gor : gor[i].pc = "call" /\ gor[i].op = c}) <= 1

\* C4 (as stated): on a manager that was never started, ManualRefresh is a
\* no-op, so no refresh operation is ever invoked.
C4_FreshManualIsNoOp ==
    nStart = 0 => \A c \in CacheTypes : calls[c] = 0

\* C4 (amended): on a manager that was never started and never stopped,
\* ManualRefresh is never skipped; each call launches one cycle, and every
\* finished cycle has invoked both operations.
C4_FreshManualLaunchesCycle ==
    (nStart = 0 /\ ~cancelled) =>
        /\ \A j \in ManIds : ManPc(j) # "skipped"
        /\ \A c \in CacheTypes :
              calls[c] >= Cardinality({j \in ManIds : ManPc(j) = "done"})

\* a never-started manager whose ManualRefresh cycle ran to its end
C4_Witness ==
    /\ nStart = 0 /\ ~cancelled
    /\ ManPc(1) = "done"
    /\ calls[CacheTypeCustomers] >= 1 /\ calls[CacheTypeUsers] >= 1

\* C5: once a Stop call has returned, no refresh operation is invoked any more.
C5_NoInvocationAfterStop ==
    [][ StopReturned => calls' = calls ]_vars

\* C6: a ManualRefresh call that begins when the context is already cancelled
\* is skipped, and a skipped call never launches a cycle or invokes anything.
C6_ManualAfterCancelIsNoOp ==
    [][ \A j \in ManIds :
          /\ (ManPc(j) = "none" /\ cancelled /\ gor'[ManSlot(j)] # gor[ManSlot(j)])
                => gor'[ManSlot(j)] = Idle("skipped")
          /\ ManPc(j) = "skipped" => gor'[ManSlot(j)] = gor[ManSlot(j)] ]_vars

\* a ManualRefresh call was skipped after Stop cancelled the context
C6_Witness ==
    /\ cancelled
    /\ \E j \in ManIds : ManPc(j) = "skipped"

\* a Stop call made when the context is already cancelled, or its return
LaterStopStep ==
    \E s \in StopIds : stop'[s] # stop[s] /\ cancelled

\* C7: every Stop call returns, on a started and on a never-started manager
\* (a caller that waits stays waiting until it returns, so again and again no
\* caller is left waiting), and a Stop call after the first changes nothing of the engine (context,
\* wait group, goroutines, tickers) and invokes no refresh operation.
C7_StopIdempotent ==
    /\ []<>(\A s \in StopIds : stop[s] # "wait")
    /\ [][ LaterStopStep =>
             UNCHANGED <<gor, nStart, tickC, tickStopped, deferTicker, cancelled,
                         wg, calls, events>> ]_vars

\* two Stop calls have returned on a started manager
C7_Witness ==
    /\ nStart >= 1
    /\ stop[1] = "returned" /\ stop[2] = "returned"

\* ManualRefresh calls made so far
ManualCalls == Cardinality({j \in ManIds : ManPc(j) # "none"})
\* every ManualRefresh call made has returned and its cycle, if any, has finished
ManualQuiet == \A j \in ManIds : ManPc(j) \in {"none", "skipped", "done"}
AlwaysSucceeds(c) == failUntil[c] = 0

\* C8: on a manager that was not stopped, with both operations always
\* succeeding and no tick, once the cycles of the k ManualRefresh calls made
\* have finished each operation has been invoked exactly k times.
C8_OneCyclePerTrigger ==
    (/\ ~cancelled
     /\ nTick = 0
     /\ \A c \in CacheTypes : AlwaysSucceeds(c)
     /\ ManualQuiet)
        => \A c \in CacheTypes : calls[c] = ManualCalls

\* two ManualRefresh calls whose cycles have both finished
C8_Witness ==
    /\ ~cancelled /\ nTick = 0
    /\ \A c \in CacheTypes : AlwaysSucceeds(c)
    /\ ManualQuiet
    /\ ManualCalls = 2
    /\ \A c \in CacheTypes : calls[c] = 2

\* the retry loop of goroutine i can end in this step: its call succeeded, its
\* call failed past the retry window, or it sits in the backoff select with the
\* context cancelled
LoopEnds(i) ==
    \/ /\ gor[i].pc = "call"
       /\ gor[i].res = "ok" \/ gor[i].elapsed + callDur >= maxRetryWindow
    \/ /\ gor[i].pc = "backoff"
       /\ cancelled

\* C9: a cycle starts with the customers retry loop, and a goroutine enters
\* the users retry loop only in the step that ends the customers retry loop of
\* the same cycle; InitializeUsers is invoked only inside the users loop.
C9_CustomersBeforeUsers ==
    [][ \A i \in Gor :
          /\ (gor[i].op = "-" /\ gor'[i].op # "-")
                => gor'[i] = LoopStart(CacheTypeCustomers)
          /\ (gor[i].op # CacheTypeUsers /\ gor'[i].op = CacheTypeUsers)
                => /\ gor[i].op = CacheTypeCustomers
                   /\ LoopEnds(i)
                   /\ gor'[i] = LoopStart(CacheTypeUsers)
          /\ calls'[CacheTypeUsers] # calls[CacheTypeUsers]
                => \E k \in Gor : gor[k].op = CacheTypeUsers /\ gor[k].pc = "attempt"
                                  /\ gor'[k].pc = "call" ]_vars

\* a cycle whose customers loop ended in terminal failure has InitializeUsers in flight
C9_Witness ==
    \E i \in Gor :
        /\ gor[i].op = CacheTypeUsers /\ gor[i].pc = "call"
        /\ events[CacheTypeCustomers].failure = 1

\* refresh cycles begun so far: consumed ticks and spawned ManualRefresh goroutines
CyclesBegun ==
    (nTick - Cardinality({k \in RecIds : tickC[k]}))
    + Cardinality({j \in ManIds : ManPc(j) \in InCycle \cup {"done"}})
\* no goroutine is inside a cycle
NoCycleRunning == \A i \in Gor : gor[i].pc \notin InCycle

\* goroutine i records the terminal failure of its customers loop in this step
CustomersTerminalFailure(i) ==
    /\ gor[i].pc = "call" /\ gor[i].op = CacheTypeCustomers
    /\ gor'[i] # gor[i]
    /\ events'[CacheTypeCustomers].failure = events[CacheTypeCustomers].failure + 1

\* C10: the step in which a customers loop ends in terminal failure starts the
\* users loop of the same cycle; and with customers always failing and users
\* always succeeding, one finished, uncancelled cycle has recorded one terminal
\* failure for customers and one success, no failure, for users.
C10_FailureIsolation ==
    /\ [][ \A i \in Gor : CustomersTerminalFailure(i)
                => gor'[i] = LoopStart(CacheTypeUsers) ]_vars
    /\ []( (/\ failUntil[CacheTypeCustomers] = AlwaysFail
            /\ AlwaysSucceeds(CacheTypeUsers)
            /\ ~cancelled
            /\ CyclesBegun = 1
            /\ NoCycleRunning)
              => /\ events[CacheTypeCustomers].failure = 1
                 /\ events[CacheTypeCustomers].success = 0
                 /\ events[CacheTypeUsers].success = 1
                 /\ events[CacheTypeUsers].failure = 0
                 /\ events[CacheTypeUsers].retry = 0 )

\* one finished cycle: customers failed terminally, users succeeded
C10_Witness ==
    /\ failUntil[CacheTypeCustomers] = AlwaysFail
    /\ AlwaysSucceeds(CacheTypeUsers)
    /\ ~cancelled
    /\ CyclesBegun = 1
    /\ NoCycleRunning
    /\ events[CacheTypeCustomers].failure = 1
    /\ events[CacheTypeUsers].success = 1

(* ---- the retry policy, on the single cycle of SpecCycle ---- *)
\* the goroutine that runs the cycle of SpecCycle
CycleGor == ManSlot(1)
\* the retry loop of cache type c of that cycle has returned
CycleLoopOver(c) ==
    IF c = CacheTypeCustomers
    THEN gor[CycleGor].op = CacheTypeUsers \/ gor[CycleGor].pc = "done"
    ELSE gor[CycleGor].pc = "done"
\* an operation that fails at every call, with calls of negligible duration
AlwaysFailsAtOnce(c) == failUntil[c] = AlwaysFail /\ callDur = 0

\* C11 (as stated): against an operation that always fails in negligible time
\* the retry loop makes exactly 7 attempts, no 8th, and records the terminal
\* failure at the 7th.
C11_SevenAttempts ==
    \A c \in CacheTypes :
        AlwaysFailsAtOnce(c) =>
            /\ calls[c] <= 7
            /\ events[c].failure = 1 => calls[c] = 7

\* C11 (amended): against an operation that always fails in negligible time
\* the retry loop makes exactly 8 attempts: the 7th fails 189 s after the
\* start, inside the window, so a 7th retry is recorded and a 7th wait follows;
\* the terminal failure is recorded once, at the 8th attempt, and an
\* uncancelled loop that has returned has recorded it.
C11_EightAttempts ==
    \A c \in CacheTypes :
        AlwaysFailsAtOnce(c) =>
            /\ calls[c] <= 8
            /\ events[c].failure <= 1
            /\ events[c].success = 0
            /\ events[c].failure = 1 => (calls[c] = 8 /\ events[c].retry = 7)
            /\ (CycleLoopOver(c) /\ ~cancelled) => events[c].failure = 1

\* the customers loop has ended in terminal failure at its 8th attempt
C11_Witness ==
    /\ AlwaysFailsAtOnce(CacheTypeCustomers)
    /\ ~cancelled
    /\ CycleLoopOver(CacheTypeCustomers)
    /\ calls[CacheTypeCustomers] = 8
    /\ events[CacheTypeCustomers].failure = 1

\* expectedSequence of TestExponentialBackoffSequence, in seconds
BackoffSequence == <<3, 6, 12, 24, 48, 96, 192>>

\* C12: the wait after the n-th failed attempt of a loop is
\* initialBackoff * backoffMultiple^(n-1), that is 3, 6, 12, 24, 48, 96, 192
\* for n = 1..7 and there is no wait after an 8th, whatever the duration of the
\* calls; inside one loop the backoff changes only when a wait has run to its
\* end, and then it doubles: it is never reset or reduced.
C12_BackoffSequence ==
    /\ [](\A i \in Gor :
            gor[i].pc = "backoff" =>
                /\ gor[i].attempt \in 1..Len(BackoffSequence)
                /\ gor[i].backoff = BackoffSequence[gor[i].attempt]
                /\ gor[i].backoff
                     = initialBackoff * backoffMultiple ^ (gor[i].attempt - 1))
    /\ [][ \A i \in Gor :
             (gor[i].op # "-" /\ gor'[i].op = gor[i].op
              /\ gor'[i].backoff # gor[i].backoff)
                => /\ gor[i].pc = "backoff" /\ gor'[i].pc = "attempt"
                   /\ gor'[i].attempt = gor[i].attempt + 1
                   /\ gor'[i].backoff = gor[i].backoff * backoffMultiple ]_vars

\* a loop is in the wait after its 7th failed attempt
C12_Witness ==
    \E i \in Gor :
        /\ gor[i].pc = "backoff"
        /\ gor[i].attempt = 7
        /\ gor[i].backoff = 192

\* goroutine i is in a call that has failed and returns past the retry window
FailsPastWindow(i) ==
    /\ gor[i].pc = "call"
    /\ gor[i].res = "err"
    /\ gor[i].elapsed + callDur >= maxRetryWindow

\* C13: the return of a failed attempt whose elapsed time since the start of
\* the loop is >= 300 s ends the loop: exactly one terminal failure and nothing
\* else is recorded, no backoff wait begins and the operation is not invoked
\* again by the loop; and a terminal failure is recorded in no other step, so
\* never while the elapsed time is below 300 s.
C13_WindowEndsLoop ==
    [][ /\ \A i \in Gor :
             (FailsPastWindow(i) /\ gor'[i] # gor[i])
                => /\ events' = [events EXCEPT ![gor[i].op].failure = @ + 1]
                   /\ gor'[i] = AfterLoop(i)
                   /\ calls' = calls
        /\ \A c \in CacheTypes :
             events'[c].failure # events[c].failure
                => \E i \in Gor : /\ FailsPastWindow(i) /\ gor[i].op = c
                                   /\ gor'[i] # gor[i] ]_vars

\* the second attempt failed 303 s after the start of the loop (153 s after the
\* first attempt failed): one retry, then the terminal failure
C13_Witness ==
    /\ callDur = SlowCall
    /\ calls[CacheTypeCustomers] = 2
    /\ events[CacheTypeCustomers].retry = 1
    /\ events[CacheTypeCustomers].failure = 1

\* C14: an operation that fails its first k calls and then succeeds: once the
\* loop has recorded its success it has invoked the operation exactly k+1
\* times and recorded k retries, one success and no terminal failure, and this
\* stays so (no further invocation); and an uncancelled loop that has returned
\* without a terminal failure has recorded the success.
C14_TransientFailure ==
    \A c \in CacheTypes :
        failUntil[c] # AlwaysFail =>
            /\ events[c].success >= 1
                  => /\ calls[c] = failUntil[c] + 1
                     /\ events[c].retry = failUntil[c]
                     /\ events[c].success = 1
                     /\ events[c].failure = 0
            /\ (CycleLoopOver(c) /\ ~cancelled /\ events[c].failure = 0)
                  => events[c].success = 1

\* two failed calls, then success at the third, and the cycle is over
C14_Witness ==
    /\ failUntil[CacheTypeCustomers] = 2
    /\ gor[CycleGor].pc = "done"
    /\ calls[CacheTypeCustomers] = 3
    /\ events[CacheTypeCustomers].retry = 2
    /\ events[CacheTypeCustomers].success = 1

\* C15: a loop that is in its backoff wait when the context is done leaves the
\* wait by the cancellation case only: the loop returns at once, the operation
\* is not invoked again by it, and neither a success nor a terminal failure
\* (nor anything else) is recorded.
C15_CancelDuringBackoff ==
    [][ \A i \in Gor :
          (gor[i].pc = "backoff" /\ cancelled /\ gor'[i] # gor[i])
             => /\ gor'[i] = AfterLoop(i)
                /\ calls' = calls
                /\ events' = events ]_vars

\* the customers loop was cancelled in a backoff wait: it has returned with
\* retries recorded, but neither success nor terminal failure
C15_Witness ==
    /\ cancelled
    /\ CycleLoopOver(CacheTypeCustomers)
    /\ events[CacheTypeCustomers].retry >= 1
    /\ events[CacheTypeCustomers].success = 0
    /\ events[CacheTypeCustomers].failure = 0

(* ---- shutdown, on-demand refresh, directories, failures ---- *)
\* C16: every Stop call returns, also one made while a recurring goroutine is
\* in the retry loop of an operation that always fails: in the end every
\* recurring goroutine of a stopped manager has exited and no caller of Stop is
\* left waiting; and once the context is done no backoff wait is served to its
\* end, so the loop returns at its next backoff wait.
C16_StopEndsRetryLoop ==
    /\ <>[](cancelled => /\ \A i \in 1..nStart : gor[i].pc = "done"
                          /\ \A s \in StopIds : stop[s] # "wait")
    /\ [][ cancelled => \A i \in Gor :
                            ~(/\ gor[i].pc = "backoff"
                              /\ gor'[i].pc = "attempt"
                              /\ gor'[i].op = gor[i].op) ]_vars

\* Stop was called during the customers loop of the recurring cycle of an
\* always-failing operation and has returned: the loop was left at its first
\* backoff wait, with one retry and no terminal failure recorded
C16_Witness ==
    /\ failUntil[CacheTypeCustomers] = AlwaysFail
    /\ nStart = 1 /\ nTick = 1
    /\ gor[1].pc = "done"
    /\ stop[1] = "returned"
    /\ events[CacheTypeCustomers].retry = 1
    /\ events[CacheTypeCustomers].failure = 0

\* C17: on a manager that was not stopped a ManualRefresh call passes its
\* check and can launch its goroutine whatever the other goroutines do; the
\* caller's two steps invoke nothing, record nothing and move no other
\* goroutine; and the launched cycle can invoke its operation whatever the
\* recurring goroutine is doing.
C17_ManualRefreshDoesNotWait ==
    /\ [](\A j \in ManIds :
            /\ ManPc(j) = "checked" => ENABLED ManualSpawn(j)
            /\ ManPc(j) = "attempt" => ENABLED Invoke(ManSlot(j)))
    /\ [][ \A j \in ManIds :
             (ManPc(j) \in {"none", "checked"} /\ gor'[ManSlot(j)] # gor[ManSlot(j)])
                => /\ ManPc(j) = "none" /\ ~cancelled => gor'[ManSlot(j)] = Idle("checked")
                   /\ calls' = calls
                   /\ events' = events
                   /\ \A i \in Gor \ {ManSlot(j)} : gor'[i] = gor[i] ]_vars

\* an on-demand cycle and the recurring cycle are both inside a call of a
\* refresh operation
C17_Witness ==
    /\ ~cancelled
    /\ \E j \in ManIds : ManPc(j) = "call"
    /\ \E i \in RecIds : gor[i].pc = "call"

\* goroutine i returns from its call in this step
Returning(i) == gor[i].pc = "call" /\ gor'[i] # gor[i]

\* C18: the return of a failed call leaves both directories as they were; the
\* directories change only in the step in which a call returns success, and
\* then the directory of that operation becomes the listing of that call. So
\* a retry, a terminal failure, a cancellation, Start, Stop and ManualRefresh
\* never change them.
C18_ErrorLeavesDirectory ==
    [][ /\ \A i \in Gor : (Returning(i) /\ gor[i].res = "err") => dir' = dir
        /\ dir' # dir
             => \E i \in Gor :
                   /\ Returning(i) /\ gor[i].res = "ok"
                   /\ dir' = [dir EXCEPT ![gor[i].op] = Fetched(gor[i].snap)] ]_vars

\* the customers loop ended in terminal failure and left the startup listing
\* in place; the users loop failed once, retried and installed the listing of
\* its second call
C18_Witness ==
    /\ events[CacheTypeCustomers].failure >= 1
    /\ dir[CacheTypeCustomers] = Fetched(0)
    /\ events[CacheTypeUsers].retry >= 1
    /\ dir[CacheTypeUsers] = Fetched(2)

\* C19: a directory always holds one whole listing (the startup one or that
\* of one call, nothing merged), and what a reader gets from a directory,
\* also while a refresh is going on, is one whole listing as well, never an
\* empty or partly filled one.
C19_WholeReplacement ==
    \A c \in CacheTypes :
        /\ \E n \in 0..calls[c] : dir[c] = Fetched(n)
        /\ \E n \in 0..calls[c] : seen[c] = Fetched(n)

\* C20: a recurring goroutine leaves a cycle only to go back to its select,
\* whatever the loops of the cycle returned; from the select a pending tick
\* can always be consumed, and consuming it starts a whole new cycle at the
\* customers loop; every loop entered starts at attempt 1 with the initial
\* backoff and no elapsed time; and only a Stop call ends the context.
C20_FailuresDoNotStopRecurring ==
    /\ [](\A i \in RecIds :
            (gor[i].pc = "select" /\ tickC[nStart]) => ENABLED RecTick(i))
    /\ [][ /\ \A i \in RecIds :
               /\ (gor[i].op = CacheTypeUsers /\ gor'[i].op # CacheTypeUsers)
                     => gor'[i] = Idle("select")
               /\ (gor[i].pc = "select" /\ gor'[i].pc \in InCycle)
                     => gor'[i] = LoopStart(CacheTypeCustomers)
               /\ (gor'[i].op # gor[i].op /\ gor'[i].op # "-")
                     => /\ gor'[i].pc = "attempt" /\ gor'[i].attempt = 1
                        /\ gor'[i].backoff = initialBackoff
                        /\ gor'[i].elapsed = 0
           /\ cancelled' # cancelled => \E s \in StopIds : stop'[s] # stop[s] ]_vars

\* after a cycle whose customers loop ended in terminal failure, the second
\* tick has started a new cycle: the third call of InitializeCustomers is the
\* first attempt of a new loop
C20_Witness ==
    /\ ~cancelled
    /\ nTick = 2
    /\ events[CacheTypeCustomers].failure = 1
    /\ events[CacheTypeUsers].failure = 1
    /\ calls[CacheTypeCustomers] = 3
    /\ gor[1].pc = "call" /\ gor[1].op = CacheTypeCustomers
    /\ gor[1].attempt = 1

(* ---- metrics sink, recurring task, cancellation, telemetry, freshness ---- *)
\* The loop of refreshCacheWithRetry with its record calls left out, run to
\* its end without cancellation against an operation that fails its first fu
\* calls: the number of attempts made, the time since the start of the loop at
\* which it returns, and whether it returns nil.
RECURSIVE RetryLoop(_, _, _, _)
RetryLoop(fu, attempt, elapsed, backoff) ==
    LET e == elapsed + callDur
    IN  IF attempt > fu
        THEN [attempts |-> attempt, elapsed |-> e, ok |-> TRUE]
        ELSE IF WindowExceeded(e)
        THEN [attempts |-> attempt, elapsed |-> e, ok |-> FALSE]
        ELSE RetryLoop(fu, attempt + 1, e + backoff, backoff * backoffMultiple)

\* the loop of cache type c of the cycle returns in this step after a call
LoopReturns(c) ==
    /\ gor[CycleGor].pc = "call"
    /\ gor[CycleGor].op = c
    /\ gor'[CycleGor].op # c

\* C21: on a manager built without a metrics sink recordSuccess, recordFailure
\* and recordRetry change nothing, and with or without a sink a retry loop
\* returns after the same number of attempts, at the same time since its start
\* (so after the same backoff waits) and with the same result: those of the
\* loop with the record calls left out.
C21_NilSinkIsNoOp ==
    /\ [](metrics = "nil" =>
            \A c \in CacheTypes :
                events[c] = [success |-> 0, failure |-> 0, retry |-> 0])
    /\ [][\A c \in CacheTypes :
            LoopReturns(c) =>
                LET r == RetryLoop(failUntil[c], 1, 0, initialBackoff)
                IN  /\ gor[CycleGor].attempt = r.attempts
                    /\ gor[CycleGor].elapsed + callDur = r.elapsed
                    /\ (gor[CycleGor].res = "ok") = r.ok]_vars

\* without a sink, the loop against an always failing operation has made its
\* eight attempts and returned, and nothing was recorded
C21_Witness ==
    /\ metrics = "nil"
    /\ AlwaysFailsAtOnce(CacheTypeCustomers)
    /\ ~cancelled
    /\ CycleLoopOver(CacheTypeCustomers)
    /\ calls[CacheTypeCustomers] = 8
    /\ events[CacheTypeCustomers].retry = 0
    /\ events[CacheTypeCustomers].failure = 0

\* the recurring goroutines that are inside a refresh cycle
InRecurringCycle == {i \in RecIds : gor[i].pc \in InCycle}

\* C22: two cycles of the recurring task never overlap: at most one goroutine
\* launched by Start is inside refreshAll at any time.
C22_RecurringCyclesNeverOverlap == Cardinality(InRecurringCycle) <= 1

\* the goroutines launched by Start that have not exited, and the tickers
\* made by Start that were not stopped
RecurringTasks == {i \in RecIds : gor[i].pc \notin {"none", "done"}}
RunningTickers == {k \in 1..nStart : ~tickStopped[k]}

\* C23: Start on a running manager does nothing: whatever the number of Start
\* calls, at most one recurring goroutine and at most one ticker exist.
C23_StartIsNoOpWhenRunning ==
    /\ Cardinality(RecurringTasks) <= 1
    /\ Cardinality(RunningTickers) <= 1

\* the customers loop of the cycle has returned without a success and without
\* a terminal failure: it left through the cancellation case of its backoff
\* select
CustomersLoopCancelled ==
    /\ cancelled
    /\ CycleLoopOver(CacheTypeCustomers)
    /\ events[CacheTypeCustomers].success = 0
    /\ events[CacheTypeCustomers].failure = 0

C25_NoCycleAfterCancel ==
    [][\A i \in RecIds :
         (cancelled /\ gor[i].pc = "select" /\ gor'[i] # gor[i])
            => gor'[i].pc = "done"]_vars

\* time.Since(startTime) of a loop whose attempts and waits so far are those
\* of its own counter: the calls returned and the backoff waits that ran out
OwnElapsed(i) ==
    LET returned == IF gor[i].pc = "backoff" THEN gor[i].attempt
                    ELSE gor[i].attempt - 1
    IN  returned * callDur + (gor[i].backoff - initialBackoff)

\* C26: attempt, backoffDuration and startTime are locals of each call of
\* refreshCacheWithRetry. Every loop starts at attempt 1 with a backoff of 3 s
\* and no time elapsed; at any moment its backoff and its elapsed time are
\* those of its own attempt counter; and a step of one goroutine changes the
\* loop state of no other goroutine, whatever loops ran before or run at the
\* same time.
C26_LoopStateIsLocal ==
    /\ [](\A i \in Gor :
            gor[i].pc \in InCycle =>
                /\ gor[i].attempt >= 1
                /\ gor[i].backoff
                     = initialBackoff * backoffMultiple ^ (gor[i].attempt - 1)
                /\ gor[i].elapsed = OwnElapsed(i))
    /\ [][\A i \in Gor :
            /\ (gor'[i].op # gor[i].op /\ gor'[i].op # "-")
                  => gor'[i] = LoopStart(gor'[i].op)
            /\ gor'[i] # gor[i]
                  => \A k \in Gor \ {i} : gor'[k] = gor[k]]_vars

\* a loop starts afresh while another loop on the same operation is at its
\* second attempt, and a later loop starts afresh after loops that have ended
C26_Witness ==
    \E i \in Gor : \E k \in Gor \ {i} :
        /\ gor[i] = LoopStart(CacheTypeCustomers)
        /\ gor[k].op = CacheTypeCustomers
        /\ gor[k].pc = "call"
        /\ gor[k].attempt = 2
        /\ gor[k].backoff = initialBackoff * backoffMultiple
        /\ calls[CacheTypeCustomers] >= 2

\* the calls of operation c that have returned
Returned(c) ==
    IF gor[CycleGor].pc = "call" /\ gor[CycleGor].op = c
    THEN calls[c] - 1
    ELSE calls[c]

\* C27: in a retry loop every call of the operation that has returned has
\* recorded exactly one event: retries + successes + terminal failures equals
\* the calls returned, with at most one success or terminal failure per loop;
\* the failure counter moves only at the return of a failed call past the
\* retry window; and when the cancellation case ends a backoff wait, the retry
\* of the attempt before that wait is already recorded and stays recorded.
C27_OneEventPerInvocation ==
    /\ [](\A c \in CacheTypes :
            /\ events[c].retry + events[c].success + events[c].failure
                 = Returned(c)
            /\ events[c].success + events[c].failure <= 1)
    /\ [][\A c \in CacheTypes :
            events'[c].failure # events[c].failure
               => /\ FailsPastWindow(CycleGor)
                  /\ gor[CycleGor].op = c
                  /\ events'[c].failure = events[c].failure + 1]_vars
    /\ [][(gor[CycleGor].pc = "backoff" /\ cancelled
           /\ gor'[CycleGor] # gor[CycleGor])
             => /\ events' = events
                /\ events[gor[CycleGor].op].retry = gor[CycleGor].attempt]_vars

\* the cycle was cancelled in the backoff wait after its second failed call of
\* InitializeCustomers: two calls, two retries recorded and nothing else
C27_Witness ==
    /\ cancelled
    /\ CycleLoopOver(CacheTypeCustomers)
    /\ calls[CacheTypeCustomers] = 2
    /\ events[CacheTypeCustomers]
         = [success |-> 0, failure |-> 0, retry |-> 2]

\* the listing of the system of record a directory holds: Fetched(n) is the
\* n-th listing, and its oldest entry is n
Version(m) == CHOOSE n \in m : \A o \in m : n <= o

\* C28: the listings of the system of record only move forward, and a
\* directory never goes back to an older listing than one it has held.
C28_FreshnessNeverRegresses ==
    [][\A c \in CacheTypes : Version(dir'[c]) >= Version(dir[c])]_vars

\* the longest time an always failing loop with calls of negligible duration
\* spends in backoff waits: 3 + 6 + 12 + 24 + 48 + 96 + 192 seconds
TotalBackoff == 381

\* the retry loop of the cycle is left in this step
LoopLeft ==
    /\ gor[CycleGor].pc \in InCycle
    /\ gor'[CycleGor].op # gor[CycleGor].op

\* C29: a retry loop whose calls return comes to an end: a cycle that has
\* begun is eventually over. A loop is left only at the return of a successful
\* call, at the return of a failed call with 300 s or more elapsed since the
\* start of the loop, or by the cancellation case of a backoff wait, and no
\* failed call past the window is retried. Against an operation that always
\* fails in negligible time the loop begins at most 7 backoff waits, 381 s in
\* all.
C29_RetryLoopTerminates ==
    /\ (gor[CycleGor].pc \in InCycle) ~> (gor[CycleGor].pc = "done")
    /\ [][LoopLeft =>
            \/ gor[CycleGor].pc = "call" /\ gor[CycleGor].res = "ok"
            \/ FailsPastWindow(CycleGor)
            \/ gor[CycleGor].pc = "backoff" /\ cancelled]_vars
    /\ [][FailsPastWindow(CycleGor) /\ gor'[CycleGor] # gor[CycleGor]
            => LoopLeft]_vars
    /\ [](\A c \in CacheTypes :
            AlwaysFailsAtOnce(c) =>
                /\ events[c].retry <= Len(BackoffSequence)
                /\ gor[CycleGor].op = c => gor[CycleGor].elapsed <= TotalBackoff)

\* the users loop against an always failing operation has ended by itself
\* after its seventh backoff wait
C29_Witness ==
    /\ AlwaysFailsAtOnce(CacheTypeUsers)
    /\ ~cancelled
    /\ gor[CycleGor].pc = "done"
    /\ events[CacheTypeUsers].retry = Len(BackoffSequence)
    /\ events[CacheTypeUsers].failure = 1

\* C30: Start performs no refresh. Start and the first steps of its goroutine
\* invoke nothing and lead to the select; the goroutine leaves the select for
\* a cycle only by receiving a tick; so as long as no ticker has fired and
\* ManualRefresh was not called, neither operation has been invoked, however
\* many times Start was called.
C30_StartPerformsNoRefresh ==
    /\ []((nTick = 0 /\ ManualCalls = 0) =>
            /\ \A c \in CacheTypes : calls[c] = 0
            /\ \A i \in Gor : gor[i].pc \notin InCycle)
    /\ [][\A i \in RecIds :
            /\ (gor[i].pc \in {"none", "spawned"} /\ gor'[i] # gor[i])
                  => /\ gor'[i] \in {Idle("spawned"), Idle("select")}
                     /\ calls' = calls
            /\ (gor[i].pc = "select" /\ gor'[i].pc \in InCycle)
                  => \E k \in RecIds : tickC[k] /\ ~tickC'[k]]_vars

\* a started manager whose goroutine waits in its select: no tick yet, no
\* ManualRefresh, nothing invoked
C30_Witness ==
    /\ nStart = 1
    /\ gor[1] = Idle("select")
    /\ nTick = 0
    /\ ManualCalls = 0
    /\ ~cancelled
    /\ \A c \in CacheTypes : calls[c] = 0

Next ==
    \/ Start
    \/ \E i \in RecIds : RecBegin(i)
    \/ \E k \in RecIds : Tick(k)
    \/ \E i \in RecIds : RecTick(i)
    \/ \E i \in RecIds : RecExit(i)
    \/ \E j \in ManIds : ManualCheck(j)
    \/ \E j \in ManIds : ManualSpawn(j)
    \/ \E i \in Gor : Invoke(i)
    \/ \E i \in Gor : Return(i)
    \/ \E i \in Gor : BackoffFire(i)
    \/ \E i \in Gor : BackoffCancel(i)
    \/ \E s \in StopIds : StopCall(s)
    \/ \E s \in StopIds : StopReturn(s)

Spec == Init /\ [][Next]_vars

\* one step of goroutine i
GoroutineStep(i) ==
    \/ RecBegin(i) \/ RecTick(i) \/ RecExit(i)
    \/ Invoke(i) \/ Return(i) \/ BackoffFire(i) \/ BackoffCancel(i)

\* a step of the program itself, not of its callers or of the tickers
InternalStep ==
    \/ \E i \in Gor : GoroutineStep(i)
    \/ \E j \in ManIds : ManualSpawn(j)
    \/ \E s \in StopIds : StopReturn(s)

\* The Go scheduler runs runnable goroutines, refresh calls return and timers
\* fire: the program does not stop while one of its own steps is possible.
\* The ticks of a behaviour are bounded, so the tick case of the select in
\* Start cannot be preferred over the cancellation case for ever.
Fairness == WF_vars(InternalStep)

FairSpec == Spec /\ Fairness

\* One ManualRefresh on a manager that was never started, as in
\* TestManualRefresh: a single cycle runs from its first attempt to its end,
\* Stop may cancel the context at any moment, and readers look at the
\* directories all along.
NextCycle ==
    \/ ManualCheck(1)
    \/ ManualSpawn(1)
    \/ Invoke(ManSlot(1))
    \/ Return(ManSlot(1))
    \/ BackoffFire(ManSlot(1))
    \/ BackoffCancel(ManSlot(1))
    \/ StopCall(1)
    \/ StopReturn(1)
    \/ \E c \in CacheTypes : ReadDirectory(c)

SpecCycle == InitCycle /\ [][NextCycle]_vars

\* the single cycle under the fairness of the program's own steps: calls
\* return, timers fire and goroutines are scheduled
FairSpecCycle == SpecCycle /\ Fairness

\* the single cycle, with and without a metrics sink
SpecAnySink == InitAnySink /\ [][NextCycle]_vars

\* the whole manager, wired to the notion Client as in main
SpecClient == InitClient /\ [][Next]_vars

\* Start, the ticks and Stop only, as in TestPeriodicRefresh, with operations
\* that succeed at once; the run is followed one event further
NextRecurring ==
    \/ Start
    \/ \E i \in RecIds : RecBegin(i) \/ RecTick(i) \/ RecExit(i)
    \/ \E k \in RecIds : Tick(k)
    \/ \E i \in RecIds : Invoke(i) \/ Return(i)
    \/ StopCall(1)
    \/ StopReturn(1)

SpecRecurring == InitRecurring /\ [][NextRecurring]_vars
====
